---- MODULE Spec2Model ----
(***************************************************************************)
(* Model of the browser-automation monitor page                            *)
(* (src/frontend/src/app/page.tsx, component Home).                        *)
(*                                                                         *)
(* State: the component's React state (task, logs, screenshot, result,     *)
(* error, isLoading), the WebSocket held in wsRef (its readyState and the  *)
(* frames written to it), and the submission calls started by handleSubmit *)
(* that are still suspended at one of their two awaits.                    *)
(*                                                                         *)
(* Every handler runs to completion on the single event loop, so each      *)
(* handler (or each segment of handleSubmit between two awaits) is one     *)
(* atomic action.                                                          *)
(***************************************************************************)
EXTENDS Integers, Sequences, FiniteSets, TLC

VARIABLES
    task,        \* useState: text of the textarea
    logs,        \* useState<string[]>
    screenshot,  \* useState<string | null>
    result,      \* useState<string>
    error,       \* useState<string | null>
    isLoading,   \* useState<boolean>
    readyState,  \* wsRef.current.readyState
    wsSent,      \* frames written with wsRef.current.send, in order
    calls,       \* the invocations of handleSubmit suspended at an await,
                 \* oldest first: awaiting fetch (the request is out) or
                 \* awaiting response.json()
    lastOp       \* the handler that ran last, and its input (history)

vars == <<task, logs, screenshot, result, error, isLoading,
          readyState, wsSent, calls, lastOp>>

session == <<logs, screenshot, result, error, isLoading>>

(***************************************************************************)
(* Bounds of the model.                                                    *)
(***************************************************************************)
MaxLog == 2       \* step messages applied per session
MaxCalls == 2     \* submission calls pending at one time
MaxStops == 1     \* frames written to the channel

(***************************************************************************)
(* Values.  string | null is modelled as a sequence of length 0 or 1.      *)
(***************************************************************************)
None == <<>>
Some(v) == <<v>>

DefaultTask == "task X"
Tasks == {"", DefaultTask}

StepNumbers == {1, 2}
Thoughts == {"searching"}
Shots == {"", "AAAA", "BBBB"}
DoneResults == {"OK"}
ErrorMessages == {"boom"}

StartFailedMessage == "Failed to start task"
TransportMessages == {"Failed to fetch"}
BodyMessages == {"Unexpected token"}

(***************************************************************************)
(* Frames the server can put on the channel.  A frame is its text; the     *)
(* text either is JSON for an object (val) or is not JSON at all.          *)
(***************************************************************************)
\* "k" in data
In(k, data) == k \in DOMAIN data

AllStepObjects ==
    [step : StepNumbers, thought : Thoughts, actions : {<<>>}]
    \cup [step : StepNumbers, thought : Thoughts, actions : {<<>>},
          screenshot : Shots]
\* the step messages delivered in the model: both step numbers, and a
\* screenshot that is absent, empty, or one of two images
StepObjects ==
    {o \in AllStepObjects :
        In("screenshot", o) => (o.step = 1 <=> o.screenshot = "AAAA")}
DoneObjects == [status : {"done"}, result : DoneResults]
ErrorObjects == [status : {"error"}, message : ErrorMessages]
OtherStatusObjects == [status : {"running"}]
ShapelessObjects == [actions : {<<>>}]

Objects == StepObjects \cup DoneObjects \cup ErrorObjects
           \cup OtherStatusObjects \cup ShapelessObjects

NotJSON == [json |-> FALSE]
Frames == {[json |-> TRUE, val |-> o] : o \in Objects} \cup {NotJSON}

\* JSON.parse(event.data): the object, or a SyntaxError
ParseThrows(frame) == ~frame.json
JSONparse(frame) == frame.val


\* data.k inside a template literal: a missing field reads as undefined
Field(data, k) == IF In(k, data) THEN ToString(data[k]) ELSE "undefined"
TextField(data, k) == IF In(k, data) THEN data[k] ELSE "undefined"

\* `Step ${stepData.step}: ${stepData.thought}`
LogLine(data) == "Step " \o Field(data, "step") \o ": " \o TextField(data, "thought")

\* `data:image/png;base64,${stepData.screenshot}`
DataUrl(payload) == "data:image/png;base64," \o payload

\* if (stepData.screenshot): present and not the empty string
HasScreenshot(data) == In("screenshot", data) /\ data.screenshot # ""

NoFrame == [json |-> FALSE, none |-> TRUE]
Op(name, frame, text) == [op |-> name, frame |-> frame, text |-> text]

(***************************************************************************)
(* Initial state: first render, effect run (socket constructed).           *)
(***************************************************************************)
Init ==
    /\ task = DefaultTask
    /\ logs = <<>>
    /\ screenshot = None
    /\ result = ""
    /\ error = None
    /\ isLoading = FALSE
    /\ readyState = "CONNECTING"
    /\ wsSent = <<>>
    /\ calls = <<>>
    /\ lastOp = Op("render", NoFrame, "")

(***************************************************************************)
(* WebSocket lifecycle.                                                    *)
(***************************************************************************)
onopen ==
    /\ readyState = "CONNECTING"
    /\ readyState' = "OPEN"
    /\ lastOp' = Op("onopen", NoFrame, "")
    /\ UNCHANGED <<task, session, wsSent, calls>>

\* the closing handshake starts (a Close frame from the server)
closing ==
    /\ readyState = "OPEN"
    /\ readyState' = "CLOSING"
    /\ lastOp' = Op("closing", NoFrame, "")
    /\ UNCHANGED <<task, session, wsSent, calls>>

\* variant: a lost connection is dialled again
onclose_reconnects ==
    /\ readyState \in {"CONNECTING", "OPEN", "CLOSING"}
    /\ readyState' = "CONNECTING"
    /\ lastOp' = Op("onclose", NoFrame, "")
    /\ UNCHANGED <<task, session, wsSent, calls>>

\* the connection is gone (failed, dropped or closed): onerror / onclose log
onclose ==
    /\ readyState \in {"CONNECTING", "OPEN", "CLOSING"}
    /\ readyState' = "CLOSED"
    /\ lastOp' = Op("onclose", NoFrame, "")
    /\ UNCHANGED <<task, session, wsSent, calls>>

(***************************************************************************)
(* ws.onmessage                                                            *)
(***************************************************************************)
\* variant: the dispatch looks at the value of status, not at its presence
HasStatus_doneOrError(data) ==
    In("status", data) /\ data.status \in {"done", "error"}

\* if ("status" in data)
HasStatus(data) == In("status", data)

\* variant: the result text is added to the one on display
doneBranch_accumulates(data) ==
    /\ result' = result \o data.result
    /\ isLoading' = FALSE
    /\ UNCHANGED <<logs, screenshot, error>>

\* setResult(data.result); setIsLoading(false);
doneBranch(data) ==
    /\ result' = data.result
    /\ isLoading' = FALSE
    /\ UNCHANGED <<logs, screenshot, error>>

\* variant: the error is recorded but the running flag stays set
errorBranch_keepsLoading(data) ==
    /\ error' = Some(data.message)
    /\ UNCHANGED <<logs, screenshot, result, isLoading>>

\* setError(data.message); setIsLoading(false);
errorBranch(data) ==
    /\ error' = Some(data.message)
    /\ isLoading' = FALSE
    /\ UNCHANGED <<logs, screenshot, result>>

\* variant: the newest line is put first
stepBranch_prepends(data) ==
    /\ logs' = <<LogLine(data)>> \o logs
    /\ screenshot' = IF HasScreenshot(data)
                     THEN Some(DataUrl(data.screenshot))
                     ELSE screenshot
    /\ UNCHANGED <<result, error, isLoading>>

\* variant: a step without a screenshot blanks the image
stepBranch_blanksScreenshot(data) ==
    /\ logs' = Append(logs, LogLine(data))
    /\ screenshot' = IF HasScreenshot(data)
                     THEN Some(DataUrl(data.screenshot))
                     ELSE None
    /\ UNCHANGED <<result, error, isLoading>>

\* setLogs((prev) => [...prev, line]); if (stepData.screenshot) setScreenshot(url);
stepBranch(data) ==
    /\ logs' = Append(logs, LogLine(data))
    /\ screenshot' = IF HasScreenshot(data)
                     THEN Some(DataUrl(data.screenshot))
                     ELSE screenshot
    /\ UNCHANGED <<result, error, isLoading>>

onmessageBody(frame) ==
    IF ParseThrows(frame)
    THEN UNCHANGED session
    ELSE LET data == JSONparse(frame) IN
         IF HasStatus(data)
         THEN IF data.status = "done"
              THEN doneBranch(data)
              ELSE IF data.status = "error"
              THEN errorBranch(data)
              ELSE UNCHANGED session
         ELSE stepBranch(data)

\* the frame is the one the handler has just been given
Redelivery(frame) == lastOp.op = "onmessage" /\ lastOp.frame = frame

Appends(frame) == frame.json /\ ~In("status", frame.val)

onmessage(frame) ==
    /\ readyState = "OPEN"
    /\ Appends(frame) => Len(logs) < MaxLog
    /\ onmessageBody(frame)
    /\ lastOp' = Op("onmessage", frame, IF Redelivery(frame) THEN "again" ELSE "")
    /\ UNCHANGED <<task, readyState, wsSent, calls>>

(***************************************************************************)
(* The textarea: disabled while isLoading.                                 *)
(***************************************************************************)
setTask(v) ==
    /\ ~isLoading
    /\ task' = v
    /\ lastOp' = Op("setTask", NoFrame, "")
    /\ UNCHANGED <<session, readyState, wsSent, calls>>

(***************************************************************************)
(* handleSubmit, up to its first await.                                    *)
(***************************************************************************)
\* JSON.stringify({ task })
Body(t) == [task |-> t]

\* positions of an invocation of handleSubmit
Fetching(body) == [stage |-> "fetch", body |-> body]
ReadingBody == [stage |-> "json"]

\* the invocation at position i has returned
Settle(i) == SubSeq(calls, 1, i - 1) \o SubSeq(calls, i + 1, Len(calls))

\* variant: the guard forgets the running flag
SubmitRejected_ignoresLoading == task = ""

\* if (!task || isLoading) return;
SubmitRejected == task = "" \/ isLoading

\* variant: the previous session's error survives the reset
handleSubmit_keepsError ==
    IF SubmitRejected
    THEN /\ lastOp' = Op("submit", NoFrame, "rejected")
         /\ UNCHANGED <<task, session, readyState, wsSent, calls>>
    ELSE /\ Len(calls) < MaxCalls
         /\ logs' = <<>>
         /\ screenshot' = None
         /\ result' = ""
         /\ isLoading' = TRUE
         /\ calls' = Append(calls, Fetching(Body(task)))
         /\ lastOp' = Op("submit", NoFrame, "accepted")
         /\ UNCHANGED <<task, error, readyState, wsSent>>

handleSubmit ==
    IF SubmitRejected
    THEN /\ lastOp' = Op("submit", NoFrame, "rejected")
         /\ UNCHANGED <<task, session, readyState, wsSent, calls>>
    ELSE /\ Len(calls) < MaxCalls
         /\ logs' = <<>>
         /\ screenshot' = None
         /\ result' = ""
         /\ error' = None
         /\ isLoading' = TRUE
         /\ calls' = Append(calls, Fetching(Body(task)))
         /\ lastOp' = Op("submit", NoFrame, "accepted")
         /\ UNCHANGED <<task, readyState, wsSent>>

\* variant: the failure is recorded but the running flag stays set
catch_keepsLoading(i, message) ==
    /\ error' = Some(message)
    /\ calls' = Settle(i)
    /\ UNCHANGED <<logs, screenshot, result, isLoading>>

\* variant: a failed request wipes the log
catch_clearsLogs(i, message) ==
    /\ error' = Some(message)
    /\ isLoading' = FALSE
    /\ logs' = <<>>
    /\ calls' = Settle(i)
    /\ UNCHANGED <<screenshot, result>>

\* catch (err) { setError(err.message); setIsLoading(false); }
catch(i, message) ==
    /\ error' = Some(message)
    /\ isLoading' = FALSE
    /\ calls' = Settle(i)
    /\ UNCHANGED <<logs, screenshot, result>>

\* the fetch promise resolves with a response whose ok flag is given
fetchResolves(i, ok) ==
    /\ i \in DOMAIN calls
    /\ calls[i].stage = "fetch"
    /\ IF ok
       THEN /\ calls' = [calls EXCEPT ![i] = ReadingBody]
            /\ UNCHANGED session
       ELSE catch(i, StartFailedMessage)
    /\ lastOp' = Op("fetchResolves", NoFrame, IF ok THEN "ok" ELSE StartFailedMessage)
    /\ UNCHANGED <<task, readyState, wsSent>>

\* the fetch promise rejects (transport exception)
fetchRejects(i, message) ==
    /\ i \in DOMAIN calls
    /\ calls[i].stage = "fetch"
    /\ catch(i, message)
    /\ lastOp' = Op("fetchRejects", NoFrame, message)
    /\ UNCHANGED <<task, readyState, wsSent>>

\* response.json() resolves: console.log(data)
jsonResolves(i) ==
    /\ i \in DOMAIN calls
    /\ calls[i].stage = "json"
    /\ calls' = Settle(i)
    /\ lastOp' = Op("jsonResolves", NoFrame, "")
    /\ UNCHANGED <<task, session, readyState, wsSent>>

\* response.json() rejects: the body of the success response is not JSON
jsonRejects(i, message) ==
    /\ i \in DOMAIN calls
    /\ calls[i].stage = "json"
    /\ catch(i, message)
    /\ lastOp' = Op("jsonRejects", NoFrame, message)
    /\ UNCHANGED <<task, readyState, wsSent>>

(***************************************************************************)
(* The Stop button and handleStop.  handleStop reads no session state; the *)
(* button that calls it is disabled while isLoading is false, and a click  *)
(* on a disabled button runs no handler.  The render that follows a state  *)
(* update is taken to be committed before the next event is handled.       *)
(***************************************************************************)
\* variant: the button is never disabled
StopDisabled_never == FALSE

\* <button onClick={handleStop} disabled={!isLoading}>
StopDisabled == ~isLoading

\* variant: stopping ends the session locally
handleStop_endsSession ==
    /\ wsSent' = IF readyState = "OPEN" THEN Append(wsSent, "stop") ELSE wsSent
    /\ isLoading' = FALSE
    /\ UNCHANGED <<task, logs, screenshot, result, error, readyState, calls>>

\* variant: the frame is written whatever the socket's state
handleStop_ignoresReadyState ==
    /\ wsSent' = Append(wsSent, "stop")
    /\ UNCHANGED <<task, session, readyState, calls>>

handleStop ==
    /\ wsSent' = IF readyState = "OPEN" THEN Append(wsSent, "stop") ELSE wsSent
    /\ UNCHANGED <<task, session, readyState, calls>>

clickStop ==
    /\ Len(wsSent) < MaxStops
    /\ IF StopDisabled
       THEN UNCHANGED <<task, session, readyState, wsSent, calls>>
       ELSE handleStop
    /\ lastOp' = Op("clickStop", NoFrame, IF StopDisabled THEN "disabled" ELSE "enabled")

Next ==
    \/ onopen
    \/ closing
    \/ onclose
    \/ \E frame \in Frames : onmessage(frame)
    \/ \E v \in Tasks : setTask(v)
    \/ handleSubmit
    \/ \E i \in 1..MaxCalls : \E ok \in BOOLEAN : fetchResolves(i, ok)
    \/ \E i \in 1..MaxCalls : \E m \in TransportMessages : fetchRejects(i, m)
    \/ \E i \in 1..MaxCalls : jsonResolves(i)
    \/ \E i \in 1..MaxCalls : \E m \in BodyMessages : jsonRejects(i, m)
    \/ clickStop

Spec == Init /\ [][Next]_vars

(***************************************************************************)
(* Vocabulary of the specification, read off the component's state.        *)
(***************************************************************************)
Phase ==
    IF isLoading THEN "Running"
    ELSE IF error # None THEN "Errored"
    ELSE IF result # "" THEN "Done"
    ELSE "Idle"

terminalOutcome == <<result, error>>

IsStepEvent(frame) ==
    frame.json /\ ~In("status", frame.val) /\ In("step", frame.val)
IsTerminalEvent(frame) ==
    frame.json /\ In("status", frame.val) /\ frame.val.status \in {"done", "error"}

\* the requests still unanswered
IsFetching(call) == call.stage = "fetch"
Outstanding(cs) == SelectSeq(cs, IsFetching)

\* the step just taken is a delivery of a step / terminal message
StepEventDelivered == lastOp'.op = "onmessage" /\ IsStepEvent(lastOp'.frame)
TerminalEventDelivered == lastOp'.op = "onmessage" /\ IsTerminalEvent(lastOp'.frame)

\* the step just taken is an invocation of handleSubmit that passes its guard
SubmitAccepted == lastOp'.op = "submit" /\ task # "" /\ ~isLoading

\* the step just taken is a failure of the submission call: a response
\* that is not ok, or a rejected fetch
CallFailed ==
    \/ lastOp'.op = "fetchResolves" /\ lastOp'.text # "ok"
    \/ lastOp'.op = "fetchRejects"

\* the step just taken handles a success-status response: the fetch
\* resolving with ok, and the reading of its body ending either way
SuccessResponseHandled ==
    \/ lastOp'.op = "fetchResolves" /\ lastOp'.text = "ok"
    \/ lastOp'.op = "jsonResolves"
    \/ lastOp'.op = "jsonRejects"

(***************************************************************************)
(* C1: a StepEvent delivered while phase # Running is ignored: logs and    *)
(* screenshot are the same after it as before it.                          *)
(***************************************************************************)
C1_StaleStepIgnored ==
    [][(StepEventDelivered /\ Phase # "Running")
        => UNCHANGED <<logs, screenshot>>]_vars

(***************************************************************************)
(* C2: a TerminalEvent delivered while phase # Running is ignored: phase   *)
(* and terminalOutcome (result and error) are unchanged by it.             *)
(***************************************************************************)
C2_StaleTerminalIgnored ==
    [][(TerminalEventDelivered /\ Phase # "Running")
        => (Phase' = Phase /\ UNCHANGED <<result, error, isLoading>>)]_vars

(***************************************************************************)
(* C3: exactly one phase holds: never a result text and an error message   *)
(* recorded together, never the running flag set while either is recorded.*)
(***************************************************************************)
C3_ExactlyOnePhase ==
    /\ ~(result # "" /\ error # None)
    /\ isLoading => (result = "" /\ error = None)

(***************************************************************************)
(* C4: between one accepted submit and the next, terminalOutcome is        *)
(* written only on the transition out of Running: once the session has     *)
(* left Running, no step but an accepted submit changes result or error.   *)
(***************************************************************************)
C4_OutcomeWrittenOnce ==
    [][(Len(calls) > 0 /\ Phase # "Running" /\ ~SubmitAccepted)
        => UNCHANGED terminalOutcome]_vars

(***************************************************************************)
(* C5: submit is rejected when phase = Running or the task text is empty:  *)
(* it changes no state and issues no request; with a non-empty task text   *)
(* and phase # Running it is accepted: the session is Running afterwards   *)
(* and one more call is out.                                               *)
(***************************************************************************)
C5_SubmitGuard ==
    [][lastOp'.op = "submit"
        => IF Phase = "Running" \/ task = ""
           THEN UNCHANGED <<task, session, readyState, wsSent, calls>>
           ELSE Phase' = "Running" /\ Len(calls') = Len(calls) + 1]_vars

C5_Witness ==
    /\ lastOp.op = "submit"
    /\ lastOp.text = "rejected"
    /\ Phase = "Running"
    /\ task # ""
    /\ Len(calls) = 1

(***************************************************************************)
(* C6: an accepted submit leaves logs empty, no screenshot, no result, no  *)
(* error and phase Running, and issues exactly one request carrying the    *)
(* current task text; no other step issues a request or re-issues one.     *)
(***************************************************************************)
C6_SubmitResets ==
    [][/\ SubmitAccepted
          => /\ logs' = <<>>
             /\ screenshot' = None
             /\ result' = ""
             /\ error' = None
             /\ Phase' = "Running"
             /\ calls' = Append(calls, [stage |-> "fetch", body |-> [task |-> task]])
       /\ ~SubmitAccepted
          => /\ Len(calls') <= Len(calls)
             /\ Len(Outstanding(calls')) <= Len(Outstanding(calls))
             /\ \A j \in DOMAIN calls' :
                   calls'[j].stage = "fetch"
                   => \E i \in DOMAIN calls : calls[i] = calls'[j]]_vars

\* a second submission, accepted after the first session was ended by a
\* TerminalEvent while its own call was still pending
C6_Witness ==
    /\ lastOp.op = "submit"
    /\ lastOp.text = "accepted"
    /\ Len(calls) = 2
    /\ calls[2] = [stage |-> "fetch", body |-> [task |-> DefaultTask]]
    /\ Phase = "Running"
    /\ logs = <<>>

(***************************************************************************)
(* C7: when the submission call fails (response not ok, or a transport     *)
(* exception) the session is Errored with the failure message recorded,    *)
(* no retry is issued and the channel is untouched.                        *)
(***************************************************************************)
C7_CallFailureErrors ==
    [][CallFailed
        => /\ Phase' = "Errored"
           /\ error' = Some(lastOp'.text)
           /\ Phase = "Running" => terminalOutcome' = <<"", Some(lastOp'.text)>>
           /\ Len(Outstanding(calls')) = Len(Outstanding(calls)) - 1
           /\ \E i \in DOMAIN calls : calls' = Settle(i)
           /\ UNCHANGED <<readyState, wsSent, logs, screenshot>>]_vars

\* the call failed with a non-success response before the channel had
\* even opened: no channel message was needed
C7_Witness ==
    /\ lastOp.op = "fetchResolves"
    /\ lastOp.text = StartFailedMessage
    /\ Phase = "Errored"
    /\ terminalOutcome = <<"", Some(StartFailedMessage)>>
    /\ readyState = "CONNECTING"
    /\ calls = <<>>

(***************************************************************************)
(* C8: a success-status response leaves the session state unchanged,       *)
(* whatever its body is.                                                   *)
(***************************************************************************)
C8_SuccessLeavesState ==
    [][SuccessResponseHandled => UNCHANGED session]_vars

(***************************************************************************)
(* C9: cancel when phase # Running produces no transport call: nothing is  *)
(* written to the channel in a step taken from phase Idle, Done or Errored.*)
(***************************************************************************)
C9_NoTokenUnlessRunning ==
    [][Phase # "Running" => wsSent' = wsSent]_vars

C9_Witness ==
    /\ lastOp.op = "clickStop"
    /\ lastOp.text = "disabled"
    /\ Phase = "Done"
    /\ readyState = "OPEN"
    /\ wsSent = <<>>

(***************************************************************************)
(* C10: cancel never changes the session state, and a Running session      *)
(* leaves Running only by a TerminalEvent or a failure of the submission   *)
(* call (the catch branch of handleSubmit).                                *)
(***************************************************************************)
C10_CancelKeepsState ==
    [][/\ lastOp'.op = "clickStop" => UNCHANGED <<session, Phase>>
       /\ (Phase = "Running" /\ Phase' # "Running")
          => \/ TerminalEventDelivered
             \/ CallFailed
             \/ lastOp'.op = "jsonRejects"]_vars

C10_Witness ==
    /\ lastOp.op = "clickStop"
    /\ lastOp.text = "enabled"
    /\ Phase = "Running"
    /\ readyState = "OPEN"
    /\ wsSent = <<"stop">>

(***************************************************************************)
(* More vocabulary for the steps of the channel.                           *)
(***************************************************************************)
\* the message of the step just taken
Delivered == lastOp'.frame.val

\* a frame that matches neither payload shape: not JSON at all, or an
\* object with neither a status nor a step
IsMalformed(frame) ==
    \/ ~frame.json
    \/ ~In("status", frame.val) /\ ~In("step", frame.val)

\* a frame whose status is neither of the two terminal tags
IsOtherStatus(frame) ==
    frame.json /\ In("status", frame.val) /\ frame.val.status \notin {"done", "error"}

\* a step message that carries an image
CarriesScreenshot(data) == In("screenshot", data) /\ data.screenshot # ""

IsPrefix(a, b) == Len(a) <= Len(b) /\ SubSeq(b, 1, Len(a)) = a

\* the socket's states in the order it goes through them
Rank(rs) ==
    CASE rs = "CONNECTING" -> 0
      [] rs = "OPEN" -> 1
      [] rs = "CLOSING" -> 2
      [] rs = "CLOSED" -> 3

(***************************************************************************)
(* C11: a StepEvent applied while phase = Running appends exactly one      *)
(* line, "Step {stepIndex}: {rationale}", at the end of logs: the log      *)
(* grows by one per event, in delivery order, whatever the step indexes.   *)
(***************************************************************************)
C11_LogInDeliveryOrder ==
    [][(StepEventDelivered /\ Phase = "Running")
        => logs' = Append(logs, "Step " \o ToString(Delivered.step)
                                \o ": " \o Delivered.thought)]_vars

\* step 2 was delivered before step 1, and the log shows them in that order
C11_Witness ==
    /\ lastOp.op = "onmessage"
    /\ IsStepEvent(lastOp.frame)
    /\ lastOp.frame.val.step = 1
    /\ Phase = "Running"
    /\ logs = <<"Step 2: searching", "Step 1: searching">>

(***************************************************************************)
(* C12: a malformed inbound message is discarded: session state and the    *)
(* channel are unchanged by it.                                            *)
(***************************************************************************)
C12_MalformedDiscarded ==
    [][(lastOp'.op = "onmessage" /\ IsMalformed(lastOp'.frame))
        => UNCHANGED <<session, readyState>>]_vars

(***************************************************************************)
(* C13: a TerminalEvent applied while phase = Running ends the session:    *)
(* done gives phase Done with the result recorded, error gives phase       *)
(* Errored with the message recorded; logs and screenshot are kept.        *)
(***************************************************************************)
C13_TerminalEndsSession ==
    [][(TerminalEventDelivered /\ Phase = "Running")
        => /\ Delivered.status = "done"
              => Phase' = "Done" /\ terminalOutcome' = <<Delivered.result, None>>
           /\ Delivered.status = "error"
              => Phase' = "Errored" /\ terminalOutcome' = <<"", Some(Delivered.message)>>
           /\ UNCHANGED <<logs, screenshot>>]_vars

C13_Witness ==
    /\ lastOp.op = "onmessage"
    /\ IsTerminalEvent(lastOp.frame)
    /\ lastOp.frame.val.status = "done"
    /\ lastOp.text = ""
    /\ Phase = "Done"
    /\ terminalOutcome = <<"OK", None>>
    /\ Len(logs) = 2
    /\ screenshot # None

(***************************************************************************)
(* C14: applying the same TerminalEvent a second time in a row changes     *)
(* nothing: phase, terminalOutcome, logs and screenshot are as after the   *)
(* first application.                                                      *)
(***************************************************************************)
C14_TerminalIdempotent ==
    [][(TerminalEventDelivered /\ lastOp'.text = "again")
        => UNCHANGED <<session, Phase>>]_vars

C14_Witness ==
    /\ lastOp.op = "onmessage"
    /\ lastOp.text = "again"
    /\ IsTerminalEvent(lastOp.frame)
    /\ lastOp.frame.val.status = "error"
    /\ Phase = "Errored"
    /\ terminalOutcome = <<"", Some("boom")>>

(***************************************************************************)
(* C15: screenshot is the image of the latest applied StepEvent that       *)
(* carried one: such an event overwrites it, a StepEvent without one       *)
(* leaves it, as do a TerminalEvent, a cancel and a submission failure,    *)
(* and only an accepted submit clears it.                                  *)
(***************************************************************************)
C15_ScreenshotLatest ==
    [][/\ (StepEventDelivered /\ CarriesScreenshot(Delivered))
          => screenshot' = <<"data:image/png;base64," \o Delivered.screenshot>>
       /\ (StepEventDelivered /\ ~CarriesScreenshot(Delivered))
          => screenshot' = screenshot
       /\ (TerminalEventDelivered \/ CallFailed \/ lastOp'.op = "clickStop")
          => screenshot' = screenshot
       /\ SubmitAccepted => screenshot' = None
       /\ screenshot' # screenshot
          => \/ StepEventDelivered /\ CarriesScreenshot(Delivered)
             \/ SubmitAccepted]_vars

\* the session has ended and the last frame is still on display
C15_Witness ==
    /\ lastOp.op = "onmessage"
    /\ IsTerminalEvent(lastOp.frame)
    /\ Phase = "Errored"
    /\ logs = <<"Step 1: searching", "Step 2: searching">>
    /\ screenshot = <<"data:image/png;base64,AAAA">>

(***************************************************************************)
(* C16: logs is append-only within a session: every step other than an     *)
(* accepted submit leaves the old log as a prefix of the new one, and an   *)
(* accepted submit empties it.                                             *)
(***************************************************************************)
C16_LogAppendOnly ==
    [][/\ ~SubmitAccepted => IsPrefix(logs, logs')
       /\ SubmitAccepted => logs' = <<>>]_vars

\* a failed submission call left a two-line log in place
C16_Witness ==
    /\ lastOp.op = "fetchRejects"
    /\ Phase = "Errored"
    /\ Len(logs) = 2

(***************************************************************************)
(* C17: cancel in a Running session writes the token "stop" once if the    *)
(* channel is open and writes nothing if it is connecting, closing or      *)
(* closed; in both cases no session state changes.                         *)
(***************************************************************************)
C17_CancelOnlyWhenOpen ==
    [][(lastOp'.op = "clickStop" /\ Phase = "Running")
        => /\ wsSent' = IF readyState = "OPEN"
                        THEN wsSent \o <<"stop">>
                        ELSE wsSent
           /\ UNCHANGED <<task, session, readyState, calls>>]_vars

\* a cancel issued while the channel was closing: dropped
C17_Witness ==
    /\ lastOp.op = "clickStop"
    /\ lastOp.text = "enabled"
    /\ Phase = "Running"
    /\ readyState = "CLOSING"
    /\ wsSent = <<>>

(***************************************************************************)
(* C18: the channel is opened once and never reopened: its state only      *)
(* advances, and only by the socket's own events; and a Running session    *)
(* whose channel is closed and that has no submission call pending stays   *)
(* as it is in every later step, with no token sent.                       *)
(***************************************************************************)
C18_StuckRunning ==
    [][/\ Rank(readyState') >= Rank(readyState)
       /\ readyState' # readyState => lastOp'.op \in {"onopen", "closing", "onclose"}
       /\ (Phase = "Running" /\ readyState = "CLOSED" /\ calls = <<>>)
          => /\ Phase' = "Running"
             /\ readyState' = "CLOSED"
             /\ calls' = <<>>
             /\ UNCHANGED <<session, wsSent>>]_vars

\* stuck: Running, channel closed, the call answered, a cancel attempted
C18_Witness ==
    /\ lastOp.op = "clickStop"
    /\ Phase = "Running"
    /\ readyState = "CLOSED"
    /\ calls = <<>>
    /\ wsSent = <<>>
    /\ Len(logs) = 1

(***************************************************************************)
(* C19: a failure of an earlier session's submission call does not change  *)
(* the phase or terminalOutcome of the session that is Running now.        *)
(* (With two calls pending the older one was issued before the submit      *)
(* that started the current session; here the newer one has got its        *)
(* success response already, so the call that fails is the older one.)     *)
(***************************************************************************)
C19_StaleFailureIsolated ==
    [][(/\ CallFailed
        /\ Phase = "Running"
        /\ Len(calls) = 2
        /\ calls[1].stage = "fetch"
        /\ calls[2].stage = "json")
        => (Phase' = "Running" /\ UNCHANGED terminalOutcome)]_vars

(***************************************************************************)
(* C20: a message whose status is neither "done" nor "error" leaves the    *)
(* whole state unchanged in every phase.                                   *)
(***************************************************************************)
C20_OtherStatusIgnored ==
    [][(lastOp'.op = "onmessage" /\ IsOtherStatus(lastOp'.frame))
        => UNCHANGED <<task, session, readyState, wsSent, calls>>]_vars

C20_Witness ==
    /\ lastOp.op = "onmessage"
    /\ IsOtherStatus(lastOp.frame)
    /\ Phase = "Running"
    /\ Len(logs) = 1
    /\ readyState = "OPEN"

TypeOK ==
    /\ task \in Tasks
    /\ Len(logs) <= MaxLog
    /\ isLoading \in BOOLEAN
    /\ readyState \in {"CONNECTING", "OPEN", "CLOSING", "CLOSED"}
    /\ Len(calls) <= MaxCalls
====
